---------------------------- MODULE Spec2Model ----------------------------
(***************************************************************************)
(* Model of copywriter.py: the TxtFile header parser / writer and the      *)
(* Copywriter orchestrator.  File contents, copyright strings, formats and *)
(* notices are character strings; the regular expressions of the program   *)
(* (COPYRIGHT_REGEX, YEAR_PATTERN, '[0-9]{4}') are computed on them        *)
(* character by character.                                                 *)
(***************************************************************************)
EXTENDS Integers, Sequences, FiniteSets, TLC

\* "LET v == e IN F(v)" where e is computed once, before F(v).
Let(e, F(_)) == CHOOSE r \in {F(v) : v \in {e}} : TRUE

\* The least element of a non-empty set of integers.
Min(S) == Let(S, LAMBDA T : CHOOSE k \in T : \A m \in T : k <= m)

(***************************************************************************)
(* Strings                                                                 *)
(***************************************************************************)

\* s[i-1] of Python (positions are 1-based here); "" when out of range.
Char(s, i) == IF i >= 1 /\ i <= Len(s) THEN SubSeq(s, i, i) ELSE ""

\* s[i-1:] of Python.
From(s, i) ==
    IF i > Len(s) THEN "" ELSE IF i <= 1 THEN s ELSE SubSeq(s, i, Len(s))

\* s[:i] of Python, for i >= 0.
Upto(s, i) == IF i <= 0 THEN "" ELSE IF i >= Len(s) THEN s ELSE SubSeq(s, 1, i)

\* s[i-1:].startswith(lit)
StartsAt(s, lit, i) ==
    /\ i >= 1
    /\ i + Len(lit) - 1 <= Len(s)
    /\ SubSeq(s, i, i + Len(lit) - 1) = lit

\* str.startswith
StartsWith(s, lit) == StartsAt(s, lit, 1)

\* str.endswith
EndsWith(s, suf) == Len(suf) <= Len(s) /\ From(s, Len(s) - Len(suf) + 1) = suf

\* str.find from position i: the least position >= i where lit occurs, 0 if none.
Find(s, lit, i) ==
    Let({k \in i..Len(s) : StartsAt(s, lit, k)}, LAMBDA hits :
        IF hits = {} THEN 0 ELSE Min(hits))

\* n copies of s.
RECURSIVE Rep(_, _)
Rep(s, n) ==
    IF n <= 0 THEN ""
    ELSE Let(Rep(s, n \div 2), LAMBDA h :
             IF n % 2 = 0 THEN h \o h ELSE h \o h \o s)

Digits == {"0", "1", "2", "3", "4", "5", "6", "7", "8", "9"}

DigitVal(c) ==
    CASE c = "0" -> 0 [] c = "1" -> 1 [] c = "2" -> 2 [] c = "3" -> 3
      [] c = "4" -> 4 [] c = "5" -> 5 [] c = "6" -> 6 [] c = "7" -> 7
      [] c = "8" -> 8 [] c = "9" -> 9

DigitChar(d) ==
    CASE d = 0 -> "0" [] d = 1 -> "1" [] d = 2 -> "2" [] d = 3 -> "3"
      [] d = 4 -> "4" [] d = 5 -> "5" [] d = 6 -> "6" [] d = 7 -> "7"
      [] d = 8 -> "8" [] d = 9 -> "9"

\* string.whitespace
Whitespace == {" ", "\t", "\n", "\r"}

IsDigits(s) == Len(s) > 0 /\ \A i \in 1..Len(s) : Char(s, i) \in Digits

\* int(s) for a string of decimal digits.
RECURSIVE ParseInt(_)
ParseInt(s) ==
    IF Len(s) = 0 THEN 0
    ELSE Let(Upto(s, Len(s) - 1), LAMBDA front :
             10 * ParseInt(front) + DigitVal(Char(s, Len(s))))

\* str(n) for n >= 0: no leading zeros.
RECURSIVE IntToStr(_)
IntToStr(n) ==
    IF n < 10 THEN DigitChar(n)
    ELSE Let(n \div 10, LAMBDA q : IntToStr(q) \o DigitChar(n % 10))

\* The position of the last character of s that is not in chars, 0 if none.
LastNotIn(s, chars) ==
    Let({i \in 1..Len(s) : Char(s, i) \notin chars}, LAMBDA keep :
        IF keep = {} THEN 0 ELSE -Min({-i : i \in keep}))

\* The position of the first character of s that is not in chars,
\* Len(s) + 1 if none.
FirstNotIn(s, chars) ==
    Let({i \in 1..Len(s) : Char(s, i) \notin chars}, LAMBDA keep :
        IF keep = {} THEN Len(s) + 1 ELSE Min(keep))

\* str.rstrip()
RStrip(s) == Upto(s, LastNotIn(s, Whitespace))

\* str.strip(chars)
Strip(s, chars) ==
    Let(Upto(s, LastNotIn(s, chars)), LAMBDA t : From(t, FirstNotIn(t, chars)))

(***************************************************************************)
(* Module constants and the file type table                                *)
(***************************************************************************)

\* COPYRIGHT_REGEX = 'Copyright .*'.  A copyright regular expression is
\* modelled by its literal prefix: the pattern is the literal followed by '.*'.
COPYRIGHT_REGEX == "Copyright "

\* f.read(1000) in copyright_str.
LookbackWindow == 1000

\* lines[:3] in _add_block_notice.
OpeningLines == 3

\* The '[0-9]{4}' of YEAR_PATTERN and of year_range's findall.
YearDigits == 4

None == "None"
NoExc == "none"

FileType(name, comment, block_start, block_end, block_prefix) ==
    [name |-> name, comment |-> comment, block_start |-> block_start,
     block_end |-> block_end, block_prefix |-> block_prefix]

\* file_types, in registry order, with the suffix of each '*.ext' pattern
\* and the whole name of each literal pattern.
file_types == <<
    [type |-> FileType("c-style", "//", "/*", " */", " * "),
     suffixes |-> {".c", ".cc", ".cpp", ".cxx", ".h", ".hh", ".hpp"},
     names |-> {}],
    [type |-> FileType("py-style", "#", "\"\"\"", "\"\"\"", ""),
     suffixes |-> {".py", ".pyi", ".pyx", ".pxd", ".pyd", ".pxi"},
     names |-> {}],
    [type |-> FileType("cmake", "#", "", "", ""),
     suffixes |-> {".cmake"},
     names |-> {"CMakeLists.txt"}],
    [type |-> FileType("bash", "#", "", "", ""),
     suffixes |-> {".sh", ".bash"},
     names |-> {}] >>

NoType == FileType(None, "", "", "", "")

\* fnmatch.fnmatch(name, pat) for the patterns of one registry entry.
MatchesEntry(name, e) ==
    \/ name \in e.names
    \/ \E suf \in e.suffixes : EndsWith(name, suf)

\* recognize(path): the first registry entry with a matching pattern.
recognize(name) ==
    Let({i \in 1..Len(file_types) : MatchesEntry(name, file_types[i])},
        LAMBDA hits : IF hits = {} THEN NoType ELSE file_types[Min(hits)].type)

(***************************************************************************)
(* Regular expressions                                                     *)
(***************************************************************************)

NoMatch == [start |-> 0, stop |-> 0]

\* re.search(lit + '.*', text): the leftmost occurrence of the literal, then
\* every character up to (not including) the next newline.
SearchCopyright(lit, text) ==
    Let(Find(text, lit, 1), LAMBDA i :
        IF i = 0 THEN NoMatch
        ELSE Let(Find(text, "\n", i + Len(lit)), LAMBDA nl :
                 [start |-> i, stop |-> IF nl = 0 THEN Len(text) ELSE nl - 1]))

\* '[0-9]{4}' at position i.
FourDigitsAt(s, i) ==
    /\ i >= 1
    /\ i + YearDigits - 1 <= Len(s)
    /\ \A k \in 0..(YearDigits - 1) : Char(s, i + k) \in Digits

\* ' *' at position i: the position after the run of spaces.
SkipSpaces(s, i) == Min({k \in i..(Len(s) + 1) : Char(s, k) # " "})

\* The last position of a YEAR_PATTERN match that starts at i:
\* '[0-9]{4}' then optionally ' *-? *[0-9]{4}'.
YearMatchStop(s, i) ==
    Let(SkipSpaces(s, i + YearDigits), LAMBDA j :
        IF FourDigitsAt(s, j) THEN j + YearDigits - 1
        ELSE IF Char(s, j) # "-" THEN i + YearDigits - 1
        ELSE Let(SkipSpaces(s, j + 1), LAMBDA k :
                 IF FourDigitsAt(s, k) THEN k + YearDigits - 1
                 ELSE i + YearDigits - 1))

\* re.search(YEAR_PATTERN, s)
SearchYear(s) ==
    Let({i \in 1..Len(s) : FourDigitsAt(s, i)}, LAMBDA hits :
        IF hits = {} THEN NoMatch
        ELSE Let(Min(hits), LAMBDA i : [start |-> i, stop |-> YearMatchStop(s, i)]))

\* re.sub(pattern, repl, s, count=1) given the first match m of the pattern.
SubFirst(s, m, repl) ==
    IF m.start = 0 THEN s
    ELSE Upto(s, m.start - 1) \o repl \o From(s, m.stop + 1)

\* [int(y) for y in re.findall('[0-9]{4}', s)]
RECURSIVE FindAllYears(_)
FindAllYears(s) ==
    Let({i \in 1..Len(s) : FourDigitsAt(s, i)}, LAMBDA hits :
        IF hits = {} THEN << >>
        ELSE Let(Min(hits), LAMBDA i :
             Let(From(s, i + YearDigits), LAMBDA rest :
                 <<ParseInt(SubSeq(s, i, i + YearDigits - 1))>>
                 \o FindAllYears(rest))))

(***************************************************************************)
(* TxtFile.  A file is a record [name, content, git]: the base name of its *)
(* path, its whole content, and what 'git log -1 --format="%ad"            *)
(* --date=format:"%Y" -- name' gives for it: [code, out].                  *)
(***************************************************************************)

Ret(exc, val) == [exc |-> exc, val |-> val]

\* TxtFile.copyright_str: the first match in the first 1000 characters.
copyright_str(content, copyright_re) ==
    Let(Upto(content, LookbackWindow), LAMBDA text :
    Let(SearchCopyright(copyright_re, text), LAMBDA m :
        IF m.start = 0 THEN "" ELSE SubSeq(text, m.start, m.stop)))

NoRange == [start |-> 0, stop |-> 0]

\* range(years[0], years[-1] + 1)
YearsToRange(years) == [start |-> years[1], stop |-> years[Len(years)] + 1]

\* TxtFile.year_range: val is the range, unless none (the None result).
year_range(content, copyright_re) ==
    Let(copyright_str(content, copyright_re), LAMBDA copyright_s :
        IF copyright_s = ""
        THEN [exc |-> "ValueError", none |-> FALSE, val |-> NoRange]
        ELSE Let(SearchYear(copyright_s), LAMBDA m :
             IF m.start = 0 THEN [exc |-> NoExc, none |-> TRUE, val |-> NoRange]
             ELSE Let(SubSeq(copyright_s, m.start, m.stop), LAMBDA s :
                  Let(FindAllYears(s), LAMBDA years :
                  IF Len(years) \notin {1, 2}
                  THEN [exc |-> "ValueError", none |-> FALSE, val |-> NoRange]
                  ELSE [exc |-> NoExc, none |-> FALSE,
                        val |-> YearsToRange(years)]))))

\* The characters of date_str.strip('\'"\n').
StripChars == {"'", "\"", "\n"}

\* A modification_year that gives the year 2020 when git gives none: not the
\* code's.
modification_year_default(git_) ==
    IF git_.code # 0 THEN Ret(NoExc, 2020)
    ELSE Let(Strip(git_.out, StripChars), LAMBDA date_str :
             IF ~IsDigits(date_str) THEN Ret(NoExc, 2020)
             ELSE Ret(NoExc, ParseInt(date_str)))

\* TxtFile.modification_year: any failure of git or of int() is a ValueError.
modification_year(git_) ==
    IF git_.code # 0 THEN Ret("ValueError", 0)
    ELSE Let(Strip(git_.out, StripChars), LAMBDA date_str :
             IF ~IsDigits(date_str) THEN Ret("ValueError", 0)
             ELSE Ret(NoExc, ParseInt(date_str)))

\* The comparison with the range taken as closed: not the code's.
OutdatedCompareClosed(year, stop) == year > stop

\* The comparison of header_is_outdated.
OutdatedCompare(year, stop) == year >= stop

\* header_is_outdated with the modification year read before the year range:
\* not the code's, a failure of git is raised for every file.
header_is_outdated_git_first(f, copyright_re) ==
    Let(modification_year(f.git), LAMBDA my :
        IF my.exc # NoExc THEN Ret(my.exc, FALSE)
        ELSE Let(year_range(f.content, copyright_re), LAMBDA yr :
                 IF yr.exc # NoExc \/ yr.none THEN Ret(NoExc, FALSE)
                 ELSE Ret(NoExc, OutdatedCompare(my.val, yr.val.stop))))

\* TxtFile.header_is_outdated
header_is_outdated(f, copyright_re) ==
    Let(year_range(f.content, copyright_re), LAMBDA yr :
        IF yr.exc # NoExc THEN Ret(NoExc, FALSE)
        ELSE IF yr.none THEN Ret(NoExc, FALSE)
        ELSE Let(modification_year(f.git), LAMBDA my :
                 IF my.exc # NoExc THEN Ret(my.exc, FALSE)
                 ELSE Ret(NoExc, OutdatedCompare(my.val, yr.val.stop))))

\* TxtFile.format: the copyright string with its first year token replaced.
format(content, copyright_re) ==
    Let(copyright_str(content, copyright_re), LAMBDA cs :
    Let(SearchYear(cs), LAMBDA m : SubFirst(cs, m, "{year}")))

\* A repl that keeps the last year of the token as the start: not the code's.
YearReplSingle(start, year) == IntToStr(year) \o "-" \o IntToStr(year)

\* The repl of TxtFile.update's first re.sub.
YearRepl(start, year) == IntToStr(start) \o "-" \o IntToStr(year)

\* The first re.sub of TxtFile.update.
updated_copyright(copyright_s, start, year) ==
    Let(SearchYear(copyright_s), LAMBDA m :
        SubFirst(copyright_s, m, YearRepl(start, year)))

\* f.seek(0); f.write(new) on a file opened 'r+' that holds old: the file is
\* not truncated, what the old content had beyond the new one stays.
WriteBack(old, new) == Let(new, LAMBDA n : n \o From(old, Len(n) + 1))

\* The second re.sub of TxtFile.update and the write.
update_content(content, copyright_re, upd) ==
    Let(SearchCopyright(copyright_re, content), LAMBDA m :
    Let(SubFirst(content, m, upd), LAMBDA new_content :
        WriteBack(content, new_content)))

\* TxtFile.update: val is the content of the file afterwards.
update(f, copyright_re) ==
    Let(year_range(f.content, copyright_re), LAMBDA yr :
        IF yr.exc # NoExc THEN Ret(yr.exc, f.content)
        ELSE IF yr.none THEN Ret("AttributeError", f.content)
        ELSE Let(modification_year(f.git), LAMBDA my :
             IF my.exc # NoExc THEN Ret(my.exc, f.content)
             ELSE Let(copyright_str(f.content, copyright_re), LAMBDA cs :
                  Let(updated_copyright(cs, yr.val.start, my.val), LAMBDA upd :
                  Ret(NoExc, update_content(f.content, copyright_re, upd))))))

(***************************************************************************)
(* TxtFile.add                                                             *)
(***************************************************************************)

SHEBANG == "#!"

\* f.readlines(): the lines of the content, each with its line end.
RECURSIVE readlines(_)
readlines(s) ==
    IF s = "" THEN << >>
    ELSE Let(Find(s, "\n", 1), LAMBDA nl :
             IF nl = 0 THEN <<s>>
             ELSE Let(From(s, nl + 1), LAMBDA rest :
                      <<Upto(s, nl)>> \o readlines(rest)))

\* What f.writelines(lines) writes.
RECURSIVE writelines(_)
writelines(lines) ==
    IF lines = << >> THEN ""
    ELSE Let(Tail(lines), LAMBDA rest : Head(lines) \o writelines(rest))

\* list.insert(i, x) with a 0-based i <= len(lines).
ListInsert(lines, i, x) ==
    SubSeq(lines, 1, i) \o <<x>> \o SubSeq(lines, i + 1, Len(lines))

\* fmt.format(year=year): every '{year}' replaced by str(year).
RECURSIVE Format(_, _)
Format(fmt, year) ==
    Let(Find(fmt, "{year}", 1), LAMBDA i :
        IF i = 0 THEN fmt
        ELSE Let(From(fmt, i + 6), LAMBDA rest :
                 Upto(fmt, i - 1) \o IntToStr(year) \o Format(rest, year)))

\* The insertion index of _add_comment_notice and of create_new_block.
insert_i(lines) ==
    IF lines # << >> /\ StartsWith(lines[1], SHEBANG) THEN 1 ELSE 0

\* TxtFile._add_comment_notice
add_comment_notice(lines, notice, type) ==
    Let(type.comment \o "\n"
        \o type.comment \o " " \o notice \o "\n"
        \o type.comment \o "\n", LAMBDA new_text :
        Ret(NoExc, ListInsert(lines, insert_i(lines), new_text)))

\* find_block_start: the 0-based index of the first of the opening lines
\* that starts with block_start, -1 for its ValueError.
find_block_start(lines_, block_start) ==
    Let({i \in 1..Len(lines_) : StartsWith(lines_[i], block_start)},
        LAMBDA hits : IF hits = {} THEN -1 ELSE Min(hits) - 1)

\* create_new_block
create_new_block(lines, notice, type) ==
    Let(type.block_start \o "\n"
        \o type.block_prefix \o notice \o "\n"
        \o type.block_end \o "\n", LAMBDA new_text :
        Ret(NoExc, ListInsert(lines, insert_i(lines), new_text)))

\* The while loop of expand_existing_block from the 0-based split_i: the
\* first index from there of a whitespace character, -1 when original is
\* read past its end (IndexError).
split_index(original, split_i) ==
    Let({k \in split_i..(Len(original) - 1) :
            Char(original, k + 1) \in Whitespace}, LAMBDA stops :
        IF stops = {} THEN -1 ELSE Min(stops))

\* The line that expand_existing_block puts in the place of original.
expanded_line(original, split_i, notice, type) ==
    RStrip(Upto(original, split_i))
    \o "\n" \o type.block_prefix \o notice \o "\n"
    \o type.block_prefix
    \o From(original, split_i + 1)

\* expand_existing_block
expand_existing_block(lines, block_i_, notice, type, block_start) ==
    Let(lines[block_i_ + 1], LAMBDA original :
    Let(split_index(original,
            (Find(original, block_start, 1) - 1) + Len(block_start)),
        LAMBDA split_i :
        IF split_i = -1 THEN Ret("IndexError", lines)
        ELSE Let(expanded_line(original, split_i, notice, type), LAMBDA new :
                 Ret(NoExc, [lines EXCEPT ![block_i_ + 1] = new]))))

\* TxtFile._add_block_notice
add_block_notice(lines, notice, type) ==
    Let(IF type.block_start # "" THEN type.block_start ELSE type.comment,
        LAMBDA block_start :
    Let(SubSeq(lines, 1, IF Len(lines) < OpeningLines
                         THEN Len(lines) ELSE OpeningLines),
        LAMBDA opening_lines :
    Let(find_block_start(opening_lines, block_start), LAMBDA block_i :
        IF block_i = -1 THEN create_new_block(lines, notice, type)
        ELSE expand_existing_block(lines, block_i, notice, type, block_start))))

\* The notice that TxtFile.add makes of fmt.
Notice(fmt, git_) == Format(fmt, modification_year(git_).val)

\* TxtFile.add: val is the content of the file afterwards.
add(f, fmt) ==
    Let(modification_year(f.git), LAMBDA my :
        IF my.exc # NoExc THEN Ret(my.exc, f.content)
        ELSE Let(Format(fmt, my.val), LAMBDA notice :
             Let(recognize(f.name), LAMBDA type :
             Let(readlines(f.content), LAMBDA lines :
             Let(IF type.block_start # ""
                 THEN add_block_notice(lines, notice, type)
                 ELSE add_comment_notice(lines, notice, type), LAMBDA r :
                 IF r.exc # NoExc THEN Ret(r.exc, f.content)
                 ELSE Ret(NoExc, WriteBack(f.content, writelines(r.val))))))))

(***************************************************************************)
(* State                                                                   *)
(***************************************************************************)

VARIABLES
    fs,            \* the files on disk: [name -> content]
    git,           \* what git log gives for each file: [name -> [code, out]]
    tracked,       \* the paths that git ls-files knows
    dirs,          \* the directories under the directory of the files
    roots,         \* Copywriter.roots
    files,         \* Copywriter.files
    copyright_re,  \* Copywriter.copyright_re / TxtFile.copyright_re
    filter_re,     \* Copywriter.filter_re
    _passed_fmt,   \* Copywriter._passed_fmt
    _outdated,     \* Copywriter._outdated: {} for None, {S} for the set S
    _missing,      \* Copywriter._missing: {} for None, {S} for the set S
    _auto_format,  \* Copywriter._auto_format
    op,            \* the last call made
    arg,           \* its arguments: [path, fmt]
    before,        \* fs when the last call was made
    iterated,      \* the order in which the last call iterated over files
                   \* for auto_header, << >> if it did not
    ret,           \* what the last call returned (header_is_outdated)
    raised,        \* the exception the last call raised, NoExc if none
    calls          \* the number of calls made so far

vars == <<fs, git, tracked, dirs, roots, files, copyright_re, filter_re, _passed_fmt, _outdated,
          _missing, _auto_format, op, arg, before, iterated, ret, raised,
          calls>>

instance == <<roots, files, copyright_re, filter_re, _passed_fmt, _outdated,
              _missing, _auto_format>>

\* TxtFile(path, ...) on the file system fsmap.
TxtFile(fsmap, p) == [name |-> p, content |-> fsmap[p], git |-> git[p]]

NoArg == [path |-> "", fmt |-> ""]

(***************************************************************************)
(* Inputs                                                                  *)
(***************************************************************************)

\* The calls made on one TxtFile / on Copywriter instances.
MaxFileCalls == 2
MaxCalls == 3

\* git log's output for a file last committed in year y: the quotes of
\* --format="%ad" and of --date=format:"%Y" are part of it.
GitYear(y) == [code |-> 0, out |-> "\"\"" \o y \o "\"\"\n"]
\* A tracked file that no commit touches yet: no output.
GitNoCommit == [code |-> 0, out |-> ""]
\* git fails.
GitError == [code |-> 128, out |-> ""]

FileGits == {GitYear("2019"), GitYear("2020"), GitYear("2021"),
             GitNoCommit, GitError}

\* Year tokens of the grammar '[0-9]{4}( *-? *[0-9]{4})?'.
Tokens == {"2019", "2020", "2018-2019", "2019-2020", "2018 - 2019",
           "2019 -2020", "20182019", "2018 2019"}

Header(token) == "Copyright " \o token \o " Bob"

\* A header in a line comment; after a shebang line and at the end of the
\* file; in a block comment.
HeaderFiles ==
    {"// " \o Header(t) \o "\n" : t \in Tokens}
    \cup {"#!/bin/sh\n# " \o Header(t) : t \in Tokens}
    \cup {"/*\n * " \o Header(t) \o "\n */\nint x;\n" : t \in Tokens}

\* Headers without a year token.
NoYearFiles == {"// Copyright Bob\n", "# Copyright (c) Bob and others\n"}

\* n filler characters and a newline.
Filler(n) == Rep("x", n) \o "\n"

\* A header at the end of the lookback window.
WindowFiles ==
    {Filler(n) \o "Copyright " \o t \o "\necho\n" :
        n \in {LookbackWindow - 17, LookbackWindow - 16, LookbackWindow - 15,
               LookbackWindow - 6, LookbackWindow},
        t \in {"2019", "2018 - 2019"}}
    \cup {Filler(LookbackWindow - 15) \o Header("2019") \o "\necho\n"}

\* Files without a header.
MissingFiles ==
    {"", "echo\n", "int x;", "#!/bin/sh\necho\n", "#!/bin/sh",
     "#!/usr/bin/python\n\"\"\"\nDoc\n\"\"\"\nx = 1\n",
     "\"\"\"\nDoc\n\"\"\"\n", "\"\"\"Doc.\"\"\"\nx = 1\n", "\"\"\"",
     "/**\n * Documentation text\n */\nint x;\n",
     "/** Documentation text\n */\n", "/* doc */", "/*x*/", "/**",
     "\n// c\n/*! \\file\n */\n", "// a\n// b\n// c\n/**\n */\n",
     "//" \o Filler(LookbackWindow) \o "/**\n * Doc\n */\n"}

FileContents == HeaderFiles \cup NoYearFiles \cup WindowFiles \cup MissingFiles

FileNames == {"a.c", "a.py", "a.sh", "CMakeLists.txt"}

\* Formats given to TxtFile.add.
Formats == {"Copyright {year} Monty", "Copyright {year} Bob"}

(***************************************************************************)
(* One TxtFile: header_is_outdated, update and add called on it            *)
(***************************************************************************)

InitFile ==
    /\ \E n \in FileNames, c \in FileContents, g \in FileGits :
          /\ fs = (n :> c)
          /\ git = (n :> g)
    /\ tracked = DOMAIN fs
    /\ dirs = {}
    /\ roots = DOMAIN fs
    /\ files = {}
    /\ copyright_re = COPYRIGHT_REGEX
    /\ filter_re = ""
    /\ _passed_fmt = ""
    /\ _outdated = {}
    /\ _missing = {}
    /\ _auto_format = ""
    /\ op = "init"
    /\ arg = NoArg
    /\ before = fs
    /\ iterated = << >>
    /\ ret = FALSE
    /\ raised = NoExc
    /\ calls = 0

\* TxtFile(p, copyright_re).header_is_outdated
HeaderIsOutdated(p) ==
    /\ calls < MaxFileCalls
    /\ \E r \in {header_is_outdated(TxtFile(fs, p), copyright_re)} :
          /\ ret' = r.val
          /\ raised' = r.exc
    /\ op' = "header_is_outdated"
    /\ arg' = [path |-> p, fmt |-> ""]
    /\ before' = fs
    /\ iterated' = << >>
    /\ calls' = calls + 1
    /\ UNCHANGED <<fs, git, tracked, dirs, instance>>

\* TxtFile(p, copyright_re).update()
TxtUpdate(p) ==
    /\ calls < MaxFileCalls
    /\ \E r \in {update(TxtFile(fs, p), copyright_re)} :
          /\ fs' = [fs EXCEPT ![p] = r.val]
          /\ raised' = r.exc
    /\ op' = "update"
    /\ arg' = [path |-> p, fmt |-> ""]
    /\ before' = fs
    /\ iterated' = << >>
    /\ ret' = FALSE
    /\ calls' = calls + 1
    /\ UNCHANGED <<git, tracked, dirs, instance>>

\* TxtFile(p, copyright_re).add(fmt)
TxtAdd(p, fmt) ==
    /\ calls < MaxFileCalls
    /\ \E r \in {add(TxtFile(fs, p), fmt)} :
          /\ fs' = [fs EXCEPT ![p] = r.val]
          /\ raised' = r.exc
    /\ op' = "add"
    /\ arg' = [path |-> p, fmt |-> fmt]
    /\ before' = fs
    /\ iterated' = << >>
    /\ ret' = FALSE
    /\ calls' = calls + 1
    /\ UNCHANGED <<git, tracked, dirs, instance>>

NextFile ==
    \/ \E p \in DOMAIN fs : HeaderIsOutdated(p)
    \/ \E p \in DOMAIN fs : TxtUpdate(p)
    \/ \E p \in DOMAIN fs, fmt \in Formats : TxtAdd(p, fmt)

SpecFile == InitFile /\ [][NextFile]_vars

(***************************************************************************)
(* Copywriter                                                              *)
(***************************************************************************)

\* The directory that holds every file of fs.
Dir == "."

\* Path.is_file and Path.is_dir
is_file(fsmap, p) == p \in DOMAIN fsmap
is_dir(p) == p = Dir \/ p \in dirs

\* glob.glob(f'{root_}/**/{f_pat}', recursive=True) over the patterns of the
\* registry, for the root Dir: the files and the directories under it with a
\* name that a pattern matches; a wildcard matches no leading '.'.
glob(fsmap, root_) ==
    IF root_ # Dir THEN {}
    ELSE {p \in DOMAIN fsmap \cup dirs :
             recognize(p) # NoType /\ ~StartsWith(p, ".")}

\* git ls-files --error-unmatch path
is_git_tracked(p) == p \in tracked

\* Copywriter._find_files: the roots that are recognized files and what glob
\* finds under the roots that are directories, those of them that git tracks.
_find_files(fsmap, root) ==
    Let({p \in root : is_file(fsmap, p) /\ recognize(p) # NoType}
        \cup UNION {glob(fsmap, root_) : root_ \in {r \in root : is_dir(r)}},
        LAMBDA paths : {p \in paths : is_git_tracked(p)})

\* TxtFile(path, ...) raises ValueError for one of the paths: it is no file.
TxtFileFails(fsmap, fileset) == \E p \in fileset : ~is_file(fsmap, p)

\* Copywriter.outdated, when not yet known: header_is_outdated of every file.
outdated(fsmap, fileset, re) ==
    IF TxtFileFails(fsmap, fileset) THEN Ret("ValueError", {})
    ELSE Let([p \in fileset |-> header_is_outdated(TxtFile(fsmap, p), re)],
             LAMBDA rs :
             IF \E p \in fileset : rs[p].exc # NoExc THEN Ret("ValueError", {})
             ELSE Ret(NoExc, {p \in fileset : rs[p].val}))

\* Copywriter.missing, when not yet known.
missing(fsmap, fileset, re) ==
    IF TxtFileFails(fsmap, fileset) THEN Ret("ValueError", {})
    ELSE Ret(NoExc, {p \in fileset : copyright_str(fsmap[p], re) = ""})

\* Copywriter.auto_header taking the first format it meets, however often
\* that format occurs.
auto_header_first_seen(fsmap, order) ==
    IF TxtFileFails(fsmap, {order[i] : i \in DOMAIN order})
    THEN Ret("ValueError", "")
    ELSE Let([i \in DOMAIN order |-> format(fsmap[order[i]], COPYRIGHT_REGEX)],
             LAMBDA formats :
         Let({i \in DOMAIN formats : formats[i] # ""}, LAMBDA filtered :
             IF filtered = {} THEN Ret("IndexError", "")
             ELSE Ret(NoExc, formats[Min(filtered)])))

\* Copywriter.auto_header, when not yet known, with the files iterated in
\* this order: the first of the most common formats, IndexError when no file
\* has a format.
auto_header(fsmap, order) ==
    IF TxtFileFails(fsmap, {order[i] : i \in DOMAIN order})
    THEN Ret("ValueError", "")
    ELSE Let([i \in DOMAIN order |-> format(fsmap[order[i]], COPYRIGHT_REGEX)],
             LAMBDA formats :
         Let({i \in DOMAIN formats : formats[i] # ""}, LAMBDA filtered :
             IF filtered = {} THEN Ret("IndexError", "")
             ELSE Let([i \in filtered |->
                          Cardinality({j \in filtered :
                                          formats[j] = formats[i]})],
                      LAMBDA counter :
                  Let(Min({i \in filtered :
                              \A j \in filtered : counter[i] >= counter[j]}),
                      LAMBDA first : Ret(NoExc, formats[first])))))

\* The orders in which a set may be iterated.
Orders(S) ==
    Let(Cardinality(S), LAMBDA n :
        {o \in [1..n -> S] : \A i, j \in 1..n : o[i] = o[j] => i = j})

\* The loop of Copywriter.update over the paths in this order.
RECURSIVE update_loop(_, _, _)
update_loop(fsmap, order, re) ==
    IF order = << >> THEN Ret(NoExc, fsmap)
    ELSE Let(update(TxtFile(fsmap, Head(order)), re), LAMBDA r :
         IF r.exc # NoExc THEN Ret(r.exc, fsmap)
         ELSE Let([fsmap EXCEPT ![Head(order)] = r.val], LAMBDA fs_ :
              Let(Tail(order), LAMBDA rest : update_loop(fs_, rest, re))))

\* The loop of Copywriter.add_missing over the paths in this order.
RECURSIVE add_loop(_, _, _)
add_loop(fsmap, order, header) ==
    IF order = << >> THEN Ret(NoExc, fsmap)
    ELSE Let(add(TxtFile(fsmap, Head(order)), header), LAMBDA r :
         IF r.exc # NoExc THEN Ret(r.exc, fsmap)
         ELSE Let([fsmap EXCEPT ![Head(order)] = r.val], LAMBDA fs_ :
              Let(Tail(order), LAMBDA rest : add_loop(fs_, rest, header))))

\* The value of a property that is computed on its first use.
Known(memo) == CHOOSE S \in memo : TRUE

(***************************************************************************)
(* Inputs of Copywriter                                                    *)
(***************************************************************************)

Names == {"a.c", "b.py", "c.sh", "README.md", ".hidden.py"}

\* A directory with a tracked file in it.
PkgDir == "pkg.py"

World(a, b, c) ==
    ("a.c" :> a) @@ ("b.py" :> b) @@ ("c.sh" :> c)
    @@ ("README.md" :> "Copyright 2019 Bob\n") @@ (".hidden.py" :> "x = 1\n")

Worlds ==
    { World("// Copyright 2018 - 2019 Bob\nint x;\n",
            "\"\"\"Doc.\"\"\"\nx = 1\n",
            "#!/bin/sh\n# Copyright 2019-2020 Bob\n"),
      World(Filler(LookbackWindow - 16) \o "Copyright 2019\nint x;\n",
            "# Copyright 2019 Monty\n",
            "#!/bin/sh\necho\n"),
      World("/**\n * Doc\n */\n", "x = 1\n", "echo\n"),
      World("// Copyright 2019 Bob\n", "# Copyright 2020 Monty\n", "echo\n"),
      World("/*x*/", "x = 1\n", "# Copyright 2019 Bob\n"),
      World("// Copyright Bob\n", "# Copyright 2018-2019 Bob\n",
            "# Copyright 2019 Bob\n") }

Gits ==
    { [p \in Names \cup {PkgDir} |-> GitYear("2019")],
      [p \in Names \cup {PkgDir} |-> GitYear("2020")],
      [p \in Names \cup {PkgDir} |->
          IF p = "c.sh" THEN GitError ELSE GitYear("2020")],
      [p \in Names \cup {PkgDir} |->
          IF p = "a.c" THEN GitNoCommit ELSE GitYear("2020")] }

\* What the command line names, what git tracks and the directories.
Roots ==
    { [root |-> {Dir}, tracked |-> Names, dirs |-> {}],
      [root |-> {Dir}, tracked |-> Names \ {"c.sh"}, dirs |-> {}],
      [root |-> {"a.c", "b.py", "README.md", "gone.py"}, tracked |-> Names,
       dirs |-> {}],
      [root |-> {Dir}, tracked |-> Names \cup {PkgDir}, dirs |-> {PkgDir}] }

\* --format and --filter-re
Options ==
    { [fmt |-> "", filter_re |-> ""],
      [fmt |-> "Copyright {year} Monty", filter_re |-> ""],
      [fmt |-> "", filter_re |-> "\\.py$"] }

(***************************************************************************)
(* One Copywriter at a time on the files: show, update, add_missing, and a *)
(* new Copywriter made with the same arguments.                            *)
(***************************************************************************)

Init ==
    /\ fs \in Worlds
    /\ git \in Gits
    /\ \E r \in Roots :
          /\ roots = r.root
          /\ tracked = r.tracked
          /\ dirs = r.dirs
    /\ files = _find_files(fs, roots)
    /\ copyright_re = COPYRIGHT_REGEX
    /\ \E o \in Options :
          /\ filter_re = o.filter_re
          /\ _passed_fmt = o.fmt
    /\ _outdated = {}
    /\ _missing = {}
    /\ _auto_format = ""
    /\ op = "init"
    /\ arg = NoArg
    /\ before = fs
    /\ iterated = << >>
    /\ ret = FALSE
    /\ raised = NoExc
    /\ calls = 0

\* self.outdated: computed from the files on its first use, the set kept
\* from then on.
self_outdated ==
    IF _outdated = {} THEN outdated(fs, files, copyright_re)
    ELSE Ret(NoExc, Known(_outdated))

\* self.missing computed from the files on every use.
self_missing_recomputed == missing(fs, files, copyright_re)

\* self.missing: computed from the files on its first use, the set kept
\* from then on.
self_missing ==
    IF _missing = {} THEN missing(fs, files, copyright_re)
    ELSE Ret(NoExc, Known(_missing))

\* What a call of a Copywriter method leaves alone.
Called(name, header) ==
    /\ calls < MaxCalls
    /\ op' = name
    /\ arg' = [path |-> "", fmt |-> header]
    /\ before' = fs
    /\ ret' = FALSE
    /\ calls' = calls + 1
    /\ UNCHANGED <<git, tracked, dirs, roots, files, copyright_re, filter_re,
                   _passed_fmt>>

\* Copywriter(*roots, copyright_re, filter_re, fmt)
NewCopywriter ==
    /\ calls < MaxCalls
    /\ files' = _find_files(fs, roots)
    /\ _outdated' = {}
    /\ _missing' = {}
    /\ _auto_format' = ""
    /\ op' = "init"
    /\ arg' = NoArg
    /\ before' = fs
    /\ iterated' = << >>
    /\ ret' = FALSE
    /\ raised' = NoExc
    /\ calls' = calls + 1
    /\ UNCHANGED <<fs, git, tracked, dirs, roots, copyright_re, filter_re,
                   _passed_fmt>>

\* Copywriter.show
Show ==
    /\ Called("show", "")
    /\ UNCHANGED fs
    /\ \E o \in {self_outdated} :
          IF o.exc # NoExc
          THEN /\ raised' = o.exc
               /\ iterated' = << >>
               /\ UNCHANGED <<_outdated, _missing, _auto_format>>
          ELSE /\ _outdated' = {o.val}
               /\ \E m \in {self_missing} :
                     IF m.exc # NoExc
                     THEN /\ raised' = m.exc
                          /\ iterated' = << >>
                          /\ UNCHANGED <<_missing, _auto_format>>
                     ELSE /\ _missing' = {m.val}
                          /\ IF \/ m.val = {}
                                \/ _passed_fmt # ""
                                \/ _auto_format # ""
                             THEN /\ raised' = NoExc
                                  /\ iterated' = << >>
                                  /\ UNCHANGED _auto_format
                             ELSE \E order \in Orders(files) :
                                  \E h \in {auto_header(fs, order)} :
                                     /\ raised' = h.exc
                                     /\ iterated' = order
                                     /\ _auto_format' = h.val

\* Copywriter.update
Update ==
    /\ Called("update", "")
    /\ iterated' = << >>
    /\ UNCHANGED <<_missing, _auto_format>>
    /\ \E o \in {self_outdated} :
          IF o.exc # NoExc
          THEN /\ raised' = o.exc
               /\ UNCHANGED <<fs, _outdated>>
          ELSE /\ _outdated' = {o.val}
               /\ \E order \in Orders(o.val) :
                  \E r \in {update_loop(fs, order, copyright_re)} :
                     /\ fs' = r.val
                     /\ raised' = r.exc

\* Copywriter.add_missing(header)
AddMissing(header) ==
    /\ Called("add_missing", header)
    /\ UNCHANGED _outdated
    /\ \E files_order \in IF header = "" /\ _auto_format = ""
                          THEN Orders(files) ELSE {<< >>} :
       \E h \in {IF header # "" THEN Ret(NoExc, header)
                 ELSE IF _auto_format # "" THEN Ret(NoExc, _auto_format)
                 ELSE auto_header(fs, files_order)} :
          /\ iterated' = files_order
          /\ IF h.exc # NoExc
             THEN /\ raised' = h.exc
                  /\ UNCHANGED <<fs, _missing, _auto_format>>
             ELSE /\ _auto_format' = IF header # "" THEN _auto_format ELSE h.val
                  /\ \E m \in {self_missing} :
                        IF m.exc # NoExc
                        THEN /\ raised' = m.exc
                             /\ UNCHANGED <<fs, _missing>>
                        ELSE /\ _missing' = {m.val}
                             /\ \E order \in Orders(m.val) :
                                \E r \in {add_loop(fs, order, h.val)} :
                                   /\ fs' = r.val
                                   /\ raised' = r.exc

Next ==
    \/ NewCopywriter
    \/ Show
    \/ Update
    \/ \E header \in {"", "Copyright {year} Monty"} : AddMissing(header)

Spec == Init /\ [][Next]_vars

(***************************************************************************)
(* What the properties are stated with: the year tokens and the years read *)
(* off the inputs, not computed by the operators above.                    *)
(***************************************************************************)

YearStrs == {"2018", "2019", "2020", "2021"}

YearNum(y) ==
    CASE y = "2018" -> 2018 [] y = "2019" -> 2019
      [] y = "2020" -> 2020 [] y = "2021" -> 2021

\* The first and the last year of a token: its first and last four characters.
FirstYear(t) == SubSeq(t, 1, 4)
LastYear(t) == SubSeq(t, Len(t) - 3, Len(t))

\* The file the last call was made on, before and after the call.
Path == arg.path
Was == before[arg.path]
Now == fs[arg.path]

\* git log gives a year for the file of the last call.
GitGivesYear == \E y \in YearStrs : git[Path] = GitYear(y)
ModYear == CHOOSE y \in YearStrs : git[Path] = GitYear(y)

\* The copyright string of content is the header with the token t.
HasHeader(content, t) == copyright_str(content, COPYRIGHT_REGEX) = Header(t)

\* The copyright string of content has no year token.
NoYearToken(content) ==
    \E cs \in {copyright_str(content, COPYRIGHT_REGEX)} :
        \A i \in 1..Len(cs) : ~FourDigitsAt(cs, i)

(***************************************************************************)
(* C1: for a file whose copyright string has a year token, a single year Y *)
(* or Y1-Y2, header_is_outdated is true iff the modification year is at    *)
(* least the end of the half-open range [Y, Y+1) or [Y1, Y2+1).            *)
(***************************************************************************)
C1_OutdatedIffPastRange ==
    (op = "header_is_outdated" /\ GitGivesYear) =>
        \A t \in Tokens :
            HasHeader(Now, t) =>
                /\ raised = NoExc
                /\ ret = (YearNum(ModYear) >= YearNum(LastYear(t)) + 1)

\* Header 2018-2019 is outdated for modification year 2020 ...
C1_Witness ==
    /\ op = "header_is_outdated"
    /\ HasHeader(Now, "2018-2019")
    /\ git[Path] = GitYear("2020")
    /\ ret = TRUE

Updated(t) == "Copyright " \o FirstYear(t) \o "-" \o ModYear \o " Bob"

\* The copyright string cs with its first year token, which m is the match
\* of, rewritten.
Rewritten(cs, m) ==
    Upto(cs, m.start - 1)
    \o SubSeq(cs, m.start, m.start + YearDigits - 1) \o "-" \o ModYear
    \o From(cs, m.stop + 1)

C4_UpdateReplacesMatchOnly ==
    (op = "update" /\ raised = NoExc) =>
        \A t \in Tokens :
            HasHeader(Was, t) =>
                \E i \in {Find(Was, "Copyright ", 1)} :
                    Now = Upto(Was, i - 1) \o Updated(t)
                          \o From(Was, i + Len(Header(t)))

\* The notice that add(fmt) inserts in the file of the last call.
NoticeOf(fmt) ==
    CASE fmt = "Copyright {year} Monty" -> "Copyright " \o ModYear \o " Monty"
      [] fmt = "Copyright {year} Bob" -> "Copyright " \o ModYear \o " Bob"

\* A line without its line end.
Chomp(line) == IF EndsWith(line, "\n") THEN Upto(line, Len(line) - 1) ELSE line

(***************************************************************************)
(* C6: for every comment form and every file without a header, the         *)
(* copyright string of the file right after add is the inserted notice.    *)
(***************************************************************************)
C6_AddRoundTrip ==
    (op = "add" /\ GitGivesYear /\ copyright_str(Was, COPYRIGHT_REGEX) = "") =>
        /\ raised = NoExc
        /\ copyright_str(Now, COPYRIGHT_REGEX) = NoticeOf(arg.fmt)

(***************************************************************************)
(* C7: add on a file whose line 0 starts with '#!' leaves that line as the *)
(* first line of the file, and what it inserts comes after it.             *)
(***************************************************************************)
C7_ShebangStaysFirst ==
    (op = "add" /\ raised = NoExc /\ StartsWith(Was, SHEBANG)) =>
        \E lines \in {readlines(Was)} :
            StartsWith(Now, Chomp(lines[1]) \o "\n")

(***************************************************************************)
(* C8: when one of the first 3 lines of a block-comment file starts with   *)
(* the block start, add splits that line after the marker and the          *)
(* non-whitespace text glued to it, keeps the glued text on the line, puts *)
(* a prefixed notice line and a prefix-only line with the rest of the line *)
(* after it and leaves every other line as it was, also when the line is   *)
(* the last of the file and has no line end.                               *)
(***************************************************************************)
\* The index of the first of the first 3 lines that starts with the marker,
\* 0 if none.
BlockLine(lines, marker) ==
    Let({i \in 1..Len(lines) : i <= 3 /\ StartsWith(lines[i], marker)},
        LAMBDA hits : IF hits = {} THEN 0 ELSE Min(hits))

\* The length of the marker and the non-whitespace text glued to it.
GluedLen(line, marker) ==
    Min({g \in Len(marker)..Len(line) : Char(line, g + 1) \in Whitespace \cup {""}})

Expanded(line, marker, prefix, notice) ==
    Let(GluedLen(line, marker), LAMBDA g :
        Upto(line, g) \o "\n" \o prefix \o notice \o "\n"
        \o prefix \o From(line, g + 1))


\* The content with the block start line, if there is one, expanded.
ExpandedContent(content, type, notice) ==
    Let(readlines(content), LAMBDA lines :
    Let(BlockLine(lines, type.block_start), LAMBDA k :
    Let(Expanded(lines[k], type.block_start, type.block_prefix, notice),
        LAMBDA line : writelines([lines EXCEPT ![k] = line]))))

\* C8: add on a file with a block start line among its first 3 lines raises
\* nothing and leaves the content with that line expanded.
C8_BlockExpansion ==
    (/\ op = "add"
     /\ GitGivesYear
     /\ recognize(Path).block_start # ""
     /\ BlockLine(readlines(Was), recognize(Path).block_start) # 0) =>
        /\ raised = NoExc
        /\ Now = ExpandedContent(Was, recognize(Path), NoticeOf(arg.fmt))


(***************************************************************************)
(* C5: after update has run on the outdated files, no file that it updated *)
(* is outdated for a new Copywriter, a second update of these files leaves *)
(* their content as it is, and the files that were not outdated are as     *)
(* they were.                                                              *)
(***************************************************************************)
\* header_is_outdated of the file p of fsmap.
IsOutdated(fsmap, p) ==
    header_is_outdated(TxtFile(fsmap, p), copyright_re).val

\* C5: the files that update() updated are current and stay as they are; the
\* files that were current are not touched.
C5_UpdateIdempotent ==
    (op = "update" /\ raised = NoExc) =>
        \A p \in files :
            /\ p \in Known(_outdated) =>
                  /\ ~IsOutdated(fs, p)
                  /\ update(TxtFile(fs, p), copyright_re).val = fs[p]
            /\ ~IsOutdated(before, p) => fs[p] = before[p]

(***************************************************************************)
(* C9: a Copywriter made with a format inserts, in add_missing(), the      *)
(* notice of that format in every missing file; the auto-detected header   *)
(* is the template only of a Copywriter made without a format.             *)
(***************************************************************************)
\* The notice of the format 'Copyright {year} Monty' for the file p.
MontyNotice(p) ==
    "Copyright " \o (CHOOSE y \in YearStrs : git[p] = GitYear(y)) \o " Monty"

\* C9: add_missing() of a Copywriter made with the Monty format puts the
\* Monty notice in every missing file.
C9_AddMissingUsesPassedFormat ==
    (/\ op = "add_missing"
     /\ arg.fmt = ""
     /\ _passed_fmt = "Copyright {year} Monty"
     /\ raised = NoExc) =>
        \A p \in Known(_missing) : Find(fs[p], MontyNotice(p), 1) # 0

(***************************************************************************)
(* C10: a Copywriter made with a filter pattern reports no file that does  *)
(* not match the pattern as outdated or missing, and its update() and      *)
(* add_missing() change no such file.                                      *)
(***************************************************************************)
\* re.search(pattern, path) for the patterns of Options.
MatchesFilter(pattern, path) ==
    CASE pattern = "\\.py$" -> EndsWith(path, ".py")
      [] OTHER -> TRUE

\* C10: the files that do not match filter_re are not reported and not
\* changed.
C10_FilterRestricts ==
    filter_re # "" =>
        \A p \in DOMAIN fs :
            ~MatchesFilter(filter_re, p) =>
                /\ op \in {"update", "add_missing"} => fs[p] = before[p]
                /\ \A S \in _outdated \cup _missing : p \notin S


(***************************************************************************)
(* C11: for a file that git gives no modification year for, add and update *)
(* raise and leave the content as it is, and what is raised when the year  *)
(* is asked for is a ValueError; update() of a Copywriter with such a file *)
(* that has a year token, and add_missing() with such a file among the     *)
(* missing files, raise the ValueError, and the file is not changed.       *)
(***************************************************************************)
\* git gives no modification year for the file p.
GitFails(p) == git[p] \in {GitError, GitNoCommit}

\* add_missing got as far as its loop: it has a header.
HasHeaderToAdd == arg.fmt # "" \/ _auto_format # ""

C11_GitFailureStops ==
    \A p \in files :
        GitFails(p) =>
            /\ \A fmt \in Formats :
                  add(TxtFile(fs, p), fmt) = Ret("ValueError", fs[p])
            /\ \E u \in {update(TxtFile(fs, p), copyright_re)} :
                  /\ u.exc # NoExc
                  /\ u.val = fs[p]
                  /\ ~NoYearToken(fs[p]) => u.exc = "ValueError"
            /\ (op = "update" /\ ~NoYearToken(before[p])) =>
                  (raised = "ValueError" /\ fs = before)
            /\ (/\ op = "add_missing"
                /\ HasHeaderToAdd
                /\ _missing # {}
                /\ p \in Known(_missing)) =>
                  (raised = "ValueError" /\ fs[p] = before[p])

\* add_missing() stopped by c.sh, which is missing a header and which git
\* fails for.
C11_Witness ==
    /\ op = "add_missing"
    /\ git["c.sh"] = GitError
    /\ _missing # {}
    /\ "c.sh" \in Known(_missing)
    /\ raised = "ValueError"
    /\ fs["c.sh"] = before["c.sh"]


(***************************************************************************)
(* C12: the files of a Copywriter are exactly the files that are a         *)
(* recognized root or lie under a root that is a directory and have a name *)
(* that a pattern of the registry matches, and that git tracks; each of    *)
(* them is a file.                                                         *)
(***************************************************************************)
\* fnmatch.fnmatch(name, pat) for a pattern of the registry, spelled out.
NameMatches(p) ==
    \/ \E suf \in {".c", ".cc", ".cpp", ".cxx", ".h", ".hh", ".hpp", ".py",
                   ".pyi", ".pyx", ".pxd", ".pyd", ".pxi", ".cmake", ".sh",
                   ".bash"} : EndsWith(p, suf)
    \/ p = "CMakeLists.txt"

C12_FindFilesExact ==
    op = "init" =>
        files = {p \in DOMAIN fs :
                    /\ NameMatches(p)
                    /\ p \in tracked
                    /\ p \in roots \/ Dir \in roots}


\* ---------------------------------------------------------------------------
\* C13: the automatic header is the most frequent format template among the
\* scanned files that have a copyright string; files without one contribute
\* nothing, and of several equally frequent templates the one met first in
\* the iteration over the files is returned.

\* The format template of a scanned file when the call was made; "" when the
\* file has no copyright string.
TemplateOf(p) == format(before[p], COPYRIGHT_REGEX)

\* The number of scanned files with this template.
TimesSeen(template) == Cardinality({p \in files : TemplateOf(p) = template})

\* The last call worked out the automatic header.
AutoHeaderComputed == iterated # << >> /\ _auto_format # ""

C13_AutoHeaderMostFrequent ==
    AutoHeaderComputed =>
        /\ \E p \in files : TemplateOf(p) = _auto_format
        /\ \A p \in files :
              TemplateOf(p) # "" =>
                  TimesSeen(TemplateOf(p)) <= TimesSeen(_auto_format)
        /\ \A i \in DOMAIN iterated :
              (/\ TemplateOf(iterated[i]) # ""
               /\ TimesSeen(TemplateOf(iterated[i])) = TimesSeen(_auto_format))
              => \E j \in 1..i : TemplateOf(iterated[j]) = _auto_format

\* Two templates are equally frequent, a third file has no copyright string,
\* and the automatic header was worked out.
C13_Witness ==
    /\ AutoHeaderComputed
    /\ \E p, q, r \in files :
          /\ TemplateOf(p) # "" /\ TemplateOf(q) # ""
          /\ TemplateOf(p) # TemplateOf(q)
          /\ TimesSeen(TemplateOf(p)) = TimesSeen(_auto_format)
          /\ TimesSeen(TemplateOf(q)) = TimesSeen(_auto_format)
          /\ TemplateOf(r) = ""
          /\ TemplateOf(iterated[1]) = ""


\* ---------------------------------------------------------------------------
\* C14: constructing a Copywriter with an explicitly given root that is
\* neither an existing file nor a directory fails with a ValueError at
\* construction.

\* A root that names nothing that exists.
RootIsGone(r) == ~is_file(fs, r) /\ ~is_dir(r)

C14_GoneRootRaises ==
    (op = "init" /\ \E r \in roots : RootIsGone(r)) => raised = "ValueError"


\* ---------------------------------------------------------------------------
\* C15: 'outdated' and 'missing' are each computed at most once per
\* Copywriter, on their first use; every later call on the same Copywriter
\* finds the set that was computed first, whatever has become of the files,
\* so that a completed update() has updated every file of that 'outdated' set
\* and a completed add_missing() has added a notice to every file of that
\* 'missing' set, again if it is not the first such call.

\* The header add_missing adds in the step.
HeaderAdded == IF arg'.fmt # "" THEN arg'.fmt ELSE _auto_format'

\* A call on the Copywriter there was before the step.
C15_Step ==
    op' # "init" =>
        /\ _outdated # {} => _outdated' = _outdated
        /\ _missing # {} => _missing' = _missing
        /\ (op' = "update" /\ raised' = NoExc) =>
              \A p \in Known(_outdated') :
                 fs'[p] = update(TxtFile(fs, p), copyright_re).val
        /\ (op' = "add_missing" /\ raised' = NoExc) =>
              \A p \in Known(_missing') :
                 fs'[p] = add(TxtFile(fs, p), HeaderAdded).val

C15_ComputedOnce == [][C15_Step]_vars

\* A completed add_missing() has changed a file of the 'missing' set that
\* had a copyright string when the call was made.
C15_Witness ==
    /\ op = "add_missing"
    /\ raised = NoExc
    /\ _missing # {}
    /\ \E p \in Known(_missing) :
          /\ copyright_str(before[p], copyright_re) # ""
          /\ fs[p] # before[p]

=============================================================================
